---- MODULE Spec2Model ----
(***************************************************************************)
(* Model of convert_keep_to_markdown.py: the filename sanitizer, the       *)
(* per-file conversion convert_keep_html_to_md and the batch loop of main. *)
(*                                                                         *)
(* Text is a sequence of characters, so that stripping, replacing,         *)
(* truncating and concatenating are computed as Python computes them.  A   *)
(* printable ASCII character, and each of \t \n \r \f, is the string       *)
(* holding it; any other character is the string holding its Python escape *)
(* (the vertical tab is "\\x0b", the no-break space "\\xa0", the em space   *)
(* "\\u2003").  The characters of the model are the code points U+0000 to  *)
(* U+00FF and the whitespace characters beyond them.                       *)
(*                                                                         *)
(* The environment is part of the model: what opening the source and       *)
(* writing the output do, whether os.makedirs and os.listdir succeed, and  *)
(* the encoding of sys.stdout, on which every print of the program         *)
(* depends.                                                                *)
(***************************************************************************)
EXTENDS Integers, Sequences, FiniteSets

VARIABLES
  \* sanitize_filename applied to an input and to its own output
  filename, sanitized, resanitized, spc,
  \* one call of convert_keep_html_to_md: its arguments and its result
  call, result, cpc,
  \* the files of the output directory: a function from path to text
  fs,
  \* main: program counter, the selected and the output directory, the
  \* directory listing, the loop position, the counters, the summary value
  pc, input_dir, output_dir, entries, idx, file_count, conversion_errors,
  successful_conversions,
  \* history: the paths the output directory held before the loop, and one
  \* record per call of convert_keep_html_to_md made by the loop
  existing, log,
  \* the encoding of sys.stdout during the run
  stdout_encoding

sanVars   == <<filename, sanitized, resanitized, spc>>
convVars  == <<call, result, cpc>>
batchVars == <<pc, input_dir, output_dir, entries, idx, file_count,
               conversion_errors, successful_conversions, existing, log,
               stdout_encoding>>
vars == <<sanVars, convVars, fs, batchVars>>

(***************************************************************************)
(* Bounds of the model.                                                    *)
(***************************************************************************)
\* longest short input of the sanitizer that is enumerated exhaustively
MaxShort == 3
\* most child nodes of a content container
MaxNodes == 2
\* most entries of the input directory besides the output directory itself
MaxFiles == 2
\* most bytes a write that fails for want of room can still write
MaxRoom == 5

(***************************************************************************)
(* Python string primitives.                                               *)
(***************************************************************************)
\* the characters str.strip() removes: those for which str.isspace holds
Whitespace ==
  {"\t", "\n", "\\x0b", "\f", "\r", "\\x1c", "\\x1d", "\\x1e", "\\x1f", " ",
   "\\x85", "\\xa0", "\\u1680", "\\u2000", "\\u2001", "\\u2002", "\\u2003",
   "\\u2004", "\\u2005", "\\u2006", "\\u2007", "\\u2008", "\\u2009",
   "\\u200a", "\\u2028", "\\u2029", "\\u202f", "\\u205f", "\\u3000"}

\* s.strip(chars): drop the longest prefix and suffix made of chars
strip(s, chars) ==
  IF \A k \in 1..Len(s) : s[k] \in chars
    THEN <<>>
    ELSE LET first == CHOOSE k \in 1..Len(s) :
                         /\ s[k] \notin chars
                         /\ \A j \in 1..(k - 1) : s[j] \in chars
             last  == CHOOSE k \in 1..Len(s) :
                         /\ s[k] \notin chars
                         /\ \A j \in (k + 1)..Len(s) : s[j] \in chars
         IN  SubSeq(s, first, last)

\* s.replace(old, new) for one-character old and new
replace(s, old, new) ==
  [k \in 1..Len(s) |-> IF s[k] = old THEN new ELSE s[k]]

\* the cased characters up to U+00FF that str.lower changes, and their
\* lower-case forms, position by position
UpperChars ==
  <<"A", "B", "C", "D", "E", "F", "G", "H", "I", "J", "K", "L", "M", "N",
    "O", "P", "Q", "R", "S", "T", "U", "V", "W", "X", "Y", "Z", "\\xc0",
    "\\xc1", "\\xc2", "\\xc3", "\\xc4", "\\xc5", "\\xc6", "\\xc7", "\\xc8",
    "\\xc9", "\\xca", "\\xcb", "\\xcc", "\\xcd", "\\xce", "\\xcf", "\\xd0",
    "\\xd1", "\\xd2", "\\xd3", "\\xd4", "\\xd5", "\\xd6", "\\xd8", "\\xd9",
    "\\xda", "\\xdb", "\\xdc", "\\xdd", "\\xde">>

LowerChars ==
  <<"a", "b", "c", "d", "e", "f", "g", "h", "i", "j", "k", "l", "m", "n",
    "o", "p", "q", "r", "s", "t", "u", "v", "w", "x", "y", "z", "\\xe0",
    "\\xe1", "\\xe2", "\\xe3", "\\xe4", "\\xe5", "\\xe6", "\\xe7", "\\xe8",
    "\\xe9", "\\xea", "\\xeb", "\\xec", "\\xed", "\\xee", "\\xef", "\\xf0",
    "\\xf1", "\\xf2", "\\xf3", "\\xf4", "\\xf5", "\\xf6", "\\xf8", "\\xf9",
    "\\xfa", "\\xfb", "\\xfc", "\\xfd", "\\xfe">>

\* c.lower() for one character
lower_char(c) ==
  IF \E i \in 1..Len(UpperChars) : UpperChars[i] = c
    THEN LowerChars[CHOOSE i \in 1..Len(UpperChars) : UpperChars[i] = c]
    ELSE c

\* s.lower()
lower(s) == [k \in 1..Len(s) |-> lower_char(s[k])]

\* s.endswith(suffix)
endswith(s, suffix) ==
  /\ Len(s) >= Len(suffix)
  /\ SubSeq(s, Len(s) - Len(suffix) + 1, Len(s)) = suffix

(***************************************************************************)
(* Encoding of text: print on sys.stdout, the text of an OSError, and the  *)
(* bytes a file written with encoding='utf-8' takes.                       *)
(***************************************************************************)
\* the whitespace characters of ASCII
AsciiWhitespace ==
  {"\t", "\n", "\\x0b", "\f", "\r", "\\x1c", "\\x1d", "\\x1e", "\\x1f", " "}

\* the characters U+0080 to U+00FF
HighLatin1 ==
  {"\\x80", "\\x81", "\\x82", "\\x83", "\\x84", "\\x85", "\\x86", "\\x87",
   "\\x88", "\\x89", "\\x8a", "\\x8b", "\\x8c", "\\x8d", "\\x8e", "\\x8f",
   "\\x90", "\\x91", "\\x92", "\\x93", "\\x94", "\\x95", "\\x96", "\\x97",
   "\\x98", "\\x99", "\\x9a", "\\x9b", "\\x9c", "\\x9d", "\\x9e", "\\x9f",
   "\\xa0", "\\xa1", "\\xa2", "\\xa3", "\\xa4", "\\xa5", "\\xa6", "\\xa7",
   "\\xa8", "\\xa9", "\\xaa", "\\xab", "\\xac", "\\xad", "\\xae", "\\xaf",
   "\\xb0", "\\xb1", "\\xb2", "\\xb3", "\\xb4", "\\xb5", "\\xb6", "\\xb7",
   "\\xb8", "\\xb9", "\\xba", "\\xbb", "\\xbc", "\\xbd", "\\xbe", "\\xbf",
   "\\xc0", "\\xc1", "\\xc2", "\\xc3", "\\xc4", "\\xc5", "\\xc6", "\\xc7",
   "\\xc8", "\\xc9", "\\xca", "\\xcb", "\\xcc", "\\xcd", "\\xce", "\\xcf",
   "\\xd0", "\\xd1", "\\xd2", "\\xd3", "\\xd4", "\\xd5", "\\xd6", "\\xd7",
   "\\xd8", "\\xd9", "\\xda", "\\xdb", "\\xdc", "\\xdd", "\\xde", "\\xdf",
   "\\xe0", "\\xe1", "\\xe2", "\\xe3", "\\xe4", "\\xe5", "\\xe6", "\\xe7",
   "\\xe8", "\\xe9", "\\xea", "\\xeb", "\\xec", "\\xed", "\\xee", "\\xef",
   "\\xf0", "\\xf1", "\\xf2", "\\xf3", "\\xf4", "\\xf5", "\\xf6", "\\xf7",
   "\\xf8", "\\xf9", "\\xfa", "\\xfb", "\\xfc", "\\xfd", "\\xfe", "\\xff"}

\* the characters of the model an ascii stream cannot encode
NonAscii == HighLatin1 \cup (Whitespace \ AsciiWhitespace)

\* the control characters U+0080 to U+009F
C1Controls ==
  {"\\x80", "\\x81", "\\x82", "\\x83", "\\x84", "\\x85", "\\x86", "\\x87",
   "\\x88", "\\x89", "\\x8a", "\\x8b", "\\x8c", "\\x8d", "\\x8e", "\\x8f",
   "\\x90", "\\x91", "\\x92", "\\x93", "\\x94", "\\x95", "\\x96", "\\x97",
   "\\x98", "\\x99", "\\x9a", "\\x9b", "\\x9c", "\\x9d", "\\x9e", "\\x9f"}

\* the characters of NonAscii that repr() shows as they are (those for
\* which str.isprintable holds); it shows the others as escapes
NonAsciiPrintable == HighLatin1 \ (C1Controls \cup {"\\xa0", "\\xad"})

\* print(f"...{s}...") on a standard output of encoding stdout does not
\* raise UnicodeEncodeError
encodes(stdout, s) ==
  stdout = "utf-8" \/ \A k \in 1..Len(s) : s[k] \notin NonAscii

\* print(f"...{e}") does not raise, e being an OSError that names the path
\* s: str(e) shows repr(s)
encodes_repr(stdout, s) ==
  stdout = "utf-8" \/ \A k \in 1..Len(s) : s[k] \notin NonAsciiPrintable

\* the number of bytes of s in UTF-8: one for a character of ASCII, two up
\* to U+07FF, three up to U+FFFF
utf8_size(s) ==
  Len(s) + Cardinality({k \in 1..Len(s) : s[k] \in HighLatin1})
         + 2 * Cardinality({k \in 1..Len(s) : s[k] \in NonAscii \ HighLatin1})

\* what is left of a character that was written in part
PartialCharacter == "(first bytes of the next character)"

\* the content of a file after a write of text that failed for want of
\* room, room bytes having been written: the characters that fit, and the
\* first bytes of the next one when room is left for some of them
flushed(text, room) ==
  LET n == CHOOSE k \in 0..Len(text) :
             /\ utf8_size(SubSeq(text, 1, k)) <= room
             /\ k < Len(text) => utf8_size(SubSeq(text, 1, k + 1)) > room
      whole == SubSeq(text, 1, n)
  IN  IF n < Len(text) /\ utf8_size(whole) < room
        THEN whole \o <<PartialCharacter>>
        ELSE whole

(***************************************************************************)
(* sanitize_filename                                                       *)
(***************************************************************************)
\* the character class of the regular expression [\\/*?:"<>|]
InvalidChars == {"\\", "/", "*", "?", ":", "\"", "<", ">", "|"}

UntitledNote == <<"U","n","t","i","t","l","e","d"," ","N","o","t","e">>

max_len == 200

\* re.sub(r'[\\/*?:"<>|]', "", filename)
re_sub_invalid(s) == SelectSeq(s, LAMBDA c : c \notin InvalidChars)

sanitize_filename(name) ==
  LET s1 == re_sub_invalid(name)
      s2 == replace(s1, ":", "_")
      s3 == replace(s2, "+", "_")
      s4 == strip(strip(s3, Whitespace), {"."})
      s5 == IF s4 = <<>> \/ (\A k \in 1..Len(s4) : s4[k] = ".")
              THEN UntitledNote
              ELSE s4
  IN  IF Len(s5) > max_len THEN SubSeq(s5, 1, max_len) ELSE s5

(***************************************************************************)
(* Inputs of the sanitizer: every string of at most MaxShort characters    *)
(* over SanAlphabet, strings padded to the neighbourhood of max_len, and   *)
(* the example of the documentation.                                       *)
(***************************************************************************)
SanAlphabet == {"a", " ", ".", ":", "+", "/", "\\x0b"}

SeqsUpTo(S, n) == UNION {[1..m -> S] : m \in 0..n}

Pad(n) == [k \in 1..n |-> "a"]

Ends == SeqsUpTo({"a", " ", ".", "+"}, 1)

LongInputs ==
  {p \o Pad(n) \o s : p \in Ends, s \in Ends,
                      n \in (max_len - 2)..(max_len + 1)}

MyNotePlanB ==
  <<"M","y"," ","N","o","t","e",":"," ","P","l","a","n","+","B">>

SanInputs == SeqsUpTo(SanAlphabet, MaxShort) \cup LongInputs \cup {MyNotePlanB}

(***************************************************************************)
(* os.path on POSIX paths.                                                 *)
(***************************************************************************)
\* os.path.join(a, b)
join(a, b) ==
  IF b # <<>> /\ b[1] = "/"
    THEN b
    ELSE IF a = <<>> \/ a[Len(a)] = "/" THEN a \o b ELSE a \o <<"/">> \o b

\* os.path.basename(p): what follows the last separator
basename(p) ==
  IF \A k \in 1..Len(p) : p[k] # "/"
    THEN p
    ELSE LET i == CHOOSE k \in 1..Len(p) :
                     /\ p[k] = "/"
                     /\ \A j \in (k + 1)..Len(p) : p[j] # "/"
         IN  SubSeq(p, i + 1, Len(p))

\* os.path.splitext(name)[0] for a name without separator: the name up to
\* its last dot, unless that dot has only dots before it
splitext_root(name) ==
  IF \A k \in 1..Len(name) : name[k] # "."
    THEN name
    ELSE LET dotIndex == CHOOSE k \in 1..Len(name) :
                            /\ name[k] = "."
                            /\ \A j \in (k + 1)..Len(name) : name[j] # "."
         IN  IF \E k \in 1..(dotIndex - 1) : name[k] # "."
               THEN SubSeq(name, 1, dotIndex - 1)
               ELSE name

(***************************************************************************)
(* Parsed documents.  A soup holds the optional title element and the two  *)
(* optional content containers the conversion looks for; a container is    *)
(* the sequence of its child nodes, a list item the sequence of its child  *)
(* elements.                                                               *)
(***************************************************************************)
Cb(checked) ==
  [tag |-> "input", type |-> "checkbox", checked |-> checked, text |-> <<>>]
TextInput ==
  [tag |-> "input", type |-> "text", checked |-> FALSE, text |-> <<>>]
Span(t) == [tag |-> "span", type |-> "", checked |-> FALSE, text |-> t]
Bold(t) == [tag |-> "b", type |-> "", checked |-> FALSE, text |-> t]

Li(kids) == [tag |-> "li", kids |-> kids, text |-> <<>>]
P(t)     == [tag |-> "p", kids |-> <<>>, text |-> t]

Tag(x)  == [present |-> TRUE, value |-> x]
NoTag   == [present |-> FALSE, value |-> <<>>]

\* tag.get_text(strip=True) of an element holding one text node
get_text_strip(t) == strip(t, Whitespace)

(***************************************************************************)
(* Checklist normalization (the loop over content_tag.find_all('li')).     *)
(***************************************************************************)
\* li.find('input', type='checkbox'): position of the first checkbox, or 0
find_checkbox(kids) ==
  IF \E k \in 1..Len(kids) : kids[k].tag = "input" /\ kids[k].type = "checkbox"
    THEN CHOOSE k \in 1..Len(kids) :
           /\ kids[k].tag = "input" /\ kids[k].type = "checkbox"
           /\ \A j \in 1..(k - 1) :
                ~(kids[j].tag = "input" /\ kids[j].type = "checkbox")
    ELSE 0

\* the element right after position c, whatever its kind, or 0
find_next_sibling_any(kids, c) == IF c < Len(kids) THEN c + 1 ELSE 0

\* checkbox.find_next_sibling('span'): position of the first span after
\* position c, or 0
find_next_sibling_span(kids, c) ==
  IF \E k \in (c + 1)..Len(kids) : kids[k].tag = "span"
    THEN CHOOSE k \in (c + 1)..Len(kids) :
           /\ kids[k].tag = "span"
           /\ \A j \in (c + 1)..(k - 1) : kids[j].tag # "span"
    ELSE 0

\* the string of the new paragraph: f"- [x] {text}" or f"- [ ] {text}"
checkbox_line(checked, text) ==
  IF checked THEN <<"-"," ","[","x","]"," ">> \o text
             ELSE <<"-"," ","["," ","]"," ">> \o text

\* one iteration of the loop body on a list item
normalize_li(li) ==
  LET checkbox == find_checkbox(li.kids) IN
  IF checkbox # 0
    THEN LET text_span == find_next_sibling_span(li.kids, checkbox)
             text == IF text_span # 0
                       THEN get_text_strip(li.kids[text_span].text)
                       ELSE <<>>
         IN  P(checkbox_line(li.kids[checkbox].checked, text))
    ELSE li

\* the container after the loop has handled the list items before position
\* stop (stop = Len(nodes) + 1 when the loop runs to its end)
normalize_until(nodes, stop) ==
  [k \in 1..Len(nodes) |->
     IF k < stop /\ nodes[k].tag = "li" THEN normalize_li(nodes[k])
                                        ELSE nodes[k]]

(***************************************************************************)
(* HTML to Markdown rendering, markdownify(html, heading_style="ATX",      *)
(* bullets='-'), on the node kinds of the model: a paragraph gives its     *)
(* text and a blank line, a list item a '-' bullet line with its text.     *)
(***************************************************************************)
RECURSIVE kids_text(_)
kids_text(kids) ==
  IF kids = <<>> THEN <<>> ELSE Head(kids).text \o kids_text(Tail(kids))

md_block(node) ==
  IF node.tag = "p"
    THEN node.text \o <<"\n", "\n">>
    ELSE <<"-", " ">> \o kids_text(node.kids) \o <<"\n">>

RECURSIVE md(_)
md(nodes) ==
  IF nodes = <<>> THEN <<>> ELSE md_block(Head(nodes)) \o md(Tail(nodes))

(***************************************************************************)
(* convert_keep_html_to_md                                                 *)
(*                                                                         *)
(* file is what opening and parsing html_filepath gives: file.open is      *)
(* "ok", "notfound" (FileNotFoundError) or "error" (any other exception    *)
(* of open or of the parser), file.soup the parsed document.  fault says   *)
(* which of the calls inside the content block raise: norm_at is the       *)
(* position of the list item whose loop iteration raises (0: none),        *)
(* md_raises whether the first rendering raises, retry_raises whether the  *)
(* rendering of the except branch raises, and write what the with block of *)
(* lines 103-104 does: "ok", "notfound" (open raises FileNotFoundError:    *)
(* the output directory is missing), "error" (open raises another OSError: *)
(* the path is a directory, the name is too long for the file system, no   *)
(* permission) or "nospace" (open has created or truncated the file, and   *)
(* writing or closing raises: the file is left empty).                     *)
(***************************************************************************)
ContentConversionFailed ==
  <<"[","C","o","n","t","e","n","t"," ","C","o","n","v","e","r","s","i","o","n",
    " ","F","a","i","l","e","d","]">>

DotMd == <<".", "m", "d">>

\* the body preset to the failure marker
markdown_content_marker == ContentConversionFailed

\* markdown_content = "" before the content block
markdown_content_default == <<>>

\* title_tag.get_text(strip=True) if title_tag else splitext(base)[0],
\* then "Untitled Note" when empty
extract_title(soup, base_filename) ==
  LET title == IF soup.title.present
                 THEN get_text_strip(soup.title.value)
                 ELSE splitext_root(base_filename)
  IN  IF title = <<>> THEN UntitledNote ELSE title

\* the output file placed next to the source file
output_path_next_to_source(html_filepath, output_dir_path, md_filename) ==
  join(SubSeq(html_filepath, 1,
              Len(html_filepath) - Len(basename(html_filepath)) - 1),
       md_filename)

\* os.path.join(output_dir_path, md_filename): the directory passed in, not
\* the directory of html_filepath
output_path(html_filepath, output_dir_path, md_filename) ==
  join(output_dir_path, md_filename)

\* soup.find('div', class_='note-content'), else
\* soup.find('div', class_='content')
find_content(soup) ==
  IF soup.note_content.present THEN soup.note_content ELSE soup.content

\* the try block of the content section and its except branch
render_content(nodes, fault) ==
  LET norm_raises == /\ fault.norm_at \in 1..Len(nodes)
                     /\ nodes[fault.norm_at].tag = "li"
      stop        == IF norm_raises THEN fault.norm_at ELSE Len(nodes) + 1
      content_tag == normalize_until(nodes, stop)
  IN  IF ~norm_raises /\ ~fault.md_raises
        THEN [retried |-> FALSE, rendered |-> content_tag,
              body |-> md(content_tag)]
        ELSE IF ~fault.retry_raises
          THEN [retried |-> TRUE, rendered |-> content_tag,
                body |-> md(content_tag)]
          ELSE [retried |-> TRUE, rendered |-> content_tag,
                body |-> ContentConversionFailed]

\* the locals of a call that ended before the title was extracted
NoOutput(outcome) ==
  [outcome |-> outcome, raised |-> FALSE, opened |-> FALSE, title |-> <<>>,
   md_filename |-> <<>>, full_md_path |-> <<>>, found |-> FALSE,
   retried |-> FALSE, rendered |-> <<>>, body |-> <<>>,
   final_md_content |-> <<>>, file_text |-> <<>>]

\* An except clause of the function (line 108: outcome "notfound", line
\* 110: outcome "failed") entered with the locals r: it prints its messages
\* and the call returns, unless one of them cannot be printed, and then the
\* exception raised by print leaves the function.
except_clause(r, outcome, printable) ==
  IF printable THEN [r EXCEPT !.outcome = outcome]
               ELSE [r EXCEPT !.outcome = "none", !.raised = TRUE]

\* The result of one call.  outcome is "written" when the function reached
\* its last line (106), "notfound" or "failed" when the except clause of
\* line 108 or 110 ended it, "none" when an exception left it (raised);
\* opened says whether the output file was opened for writing (and so
\* created or truncated) and file_text is what it holds then; the other
\* fields are the locals of the function.
\*   file.open is what open and BeautifulSoup do with the source: "ok",
\* "notfound" (FileNotFoundError), "error" (another OSError, which names
\* the path: a directory, no permission) or "undecodable"
\* (UnicodeDecodeError).  fault.write is what the with block of line 103
\* does: "ok", "notfound" (the output directory is gone), "error" (another
\* OSError of open, which names the path: a directory, a name too long) or
\* "nospace" (fault.room bytes can be written, and the write fails when the
\* text needs more).  fault.stdout is the encoding of sys.stdout.  The
\* exceptions of the content block are taken to have printable messages.
convert_keep_html_to_md(html_filepath, output_dir_path, file, fault) ==
  LET base_filename == basename(html_filepath)
      stdout        == fault.stdout
  IN
  IF ~encodes(stdout, base_filename)
    \* line 39 raises, and line 111 prints the same name
    THEN except_clause(NoOutput("none"), "failed", FALSE)
  ELSE IF file.open = "notfound"
    THEN except_clause(NoOutput("none"), "notfound",
                       encodes(stdout, html_filepath))
  ELSE IF file.open = "error"
    THEN except_clause(NoOutput("none"), "failed",
                       encodes_repr(stdout, html_filepath))
  ELSE IF file.open # "ok" THEN NoOutput("failed")
  ELSE
    LET soup         == file.soup
        title        == extract_title(soup, base_filename)
        md_filename  == sanitize_filename(title) \o DotMd
        full_md_path == output_path(html_filepath, output_dir_path, md_filename)
        content_tag  == find_content(soup)
        r            == IF content_tag.present
                          THEN render_content(content_tag.value, fault)
                          ELSE [retried |-> FALSE, rendered |-> <<>>,
                                body |-> markdown_content_default]
        final_md_content == <<"#", " ">> \o title \o <<"\n", "\n">> \o r.body
        fits   == \/ fault.write = "ok"
                  \/ /\ fault.write = "nospace"
                     /\ utf8_size(final_md_content) <= fault.room
        locals == [outcome |-> "none", raised |-> FALSE,
                   opened |-> fault.write \in {"ok", "nospace"},
                   title |-> title, md_filename |-> md_filename,
                   full_md_path |-> full_md_path,
                   found |-> content_tag.present, retried |-> r.retried,
                   rendered |-> r.rendered, body |-> r.body,
                   final_md_content |-> final_md_content,
                   file_text |->
                     IF fits THEN final_md_content
                     ELSE IF fault.write = "nospace"
                       THEN flushed(final_md_content, fault.room)
                       ELSE <<>>]
    IN  CASE fits ->
               \* line 106 prints md_filename; when it raises, the clause
               \* of line 110 prints base_filename and the text of the
               \* UnicodeEncodeError, which is ASCII
               IF encodes(stdout, md_filename)
                 THEN [locals EXCEPT !.outcome = "written"]
                 ELSE except_clause(locals, "failed", TRUE)
          [] fault.write = "notfound" ->
               except_clause(locals, "notfound",
                             encodes(stdout, html_filepath))
          [] fault.write = "error" ->
               except_clause(locals, "failed",
                             encodes_repr(stdout, full_md_path))
          [] OTHER -> except_clause(locals, "failed", TRUE)

\* a write that keeps a file that exists already
write_file_keep_existing(files, path, text) ==
  [q \in (DOMAIN files) \cup {path} |->
     IF q \in DOMAIN files THEN files[q] ELSE text]

\* with open(full_md_path, 'w') ... f.write(final_md_content), on the
\* directory contents files (a function from path to text)
write_file(files, path, text) ==
  [q \in (DOMAIN files) \cup {path} |-> IF q = path THEN text ELSE files[q]]

\* the effect of one call on the output directory
files_after(files, r) ==
  IF r.opened THEN write_file(files, r.full_md_path, r.file_text) ELSE files

(***************************************************************************)
(* Inputs of the conversion.                                               *)
(***************************************************************************)
Milk         == <<"M","i","l","k">>
Eggs         == <<"E","g","g","s">>
EggsPadded   == <<" ","E","g","g","s"," ">>
Extra        == <<"x">>
NoteText     == <<"n","o","t","e">>
ShoppingList == <<"S","h","o","p","p","i","n","g"," ","L","i","s","t">>
TitleA       == <<"A">>
TitleAColon  == <<" ","A",":">>
TitleE       == <<"\\xe9">>
OldText      == <<"o","l","d">>

Note42Html == <<"n","o","t","e","4","2",".","h","t","m","l">>
Note42     == <<"n","o","t","e","4","2">>
DotHtml    == <<".","h","t","m","l">>
ABHtml     == <<"a",".","b",".","H","T","M","L">>
NoExt      == <<"n","o","t","e","s">>
AHtml      == <<"a",".","h","t","m","l">>
AHtm       == <<"a",".","h","t","m">>
EHtml      == <<"\\xe9",".","h","t","m","l">>
ECapHTML   == <<"\\xc9",".","H","T","M","L">>

InputDir       == <<"i","n">>
OtherDir       == <<"o","u","t">>
AccentDir      == <<"i","n","\\xe9">>
NbspDir        == <<"i","n","\\xa0">>
ConvertedFiles ==
  <<"c","o","n","v","e","r","t","e","d"," ","f","i","l","e","s">>

\* the list items and paragraphs a content container is made of
NodePool ==
  { Li(<<Cb(TRUE), Span(Milk)>>),
    Li(<<Cb(FALSE), Span(EggsPadded)>>),
    Li(<<Cb(TRUE), Bold(Extra), Span(Milk)>>),
    Li(<<Cb(FALSE), Bold(Extra)>>),
    Li(<<Cb(TRUE)>>),
    Li(<<Span(Milk), Cb(FALSE)>>),
    Li(<<TextInput, Span(Eggs)>>),
    Li(<<Span(Milk)>>),
    P(NoteText) }

Containers == SeqsUpTo(NodePool, MaxNodes)

NoFault ==
  [norm_at |-> 0, md_raises |-> FALSE, retry_raises |-> FALSE, write |-> "ok",
   room |-> 0, stdout |-> "utf-8"]

\* the ways the write fails, with no room at all when room is wanting
WriteFaults ==
  {[NoFault EXCEPT !.write = w] : w \in {"notfound", "error", "nospace"}}

\* a write with room for up to MaxRoom bytes
RoomFaults ==
  {[NoFault EXCEPT !.write = "nospace", !.room = n] : n \in 0..MaxRoom}

\* the faults of the content block (retry_raises matters only when the
\* except branch is entered) with a write that succeeds, and the faults of
\* the write
Faults ==
  {f \in [norm_at : 0..MaxNodes, md_raises : BOOLEAN, retry_raises : BOOLEAN,
          write : {"ok"}, room : {0}, stdout : {"utf-8"}] :
     f.retry_raises => (f.md_raises \/ f.norm_at > 0)}
    \cup WriteFaults

\* title element and source file name: the name decides the title only
\* when there is no title element
TitledNames ==
  {<<Tag(t), Note42Html>> :
     t \in {<<>>, <<" ">>, ShoppingList, TitleA, TitleAColon}}
    \cup {<<NoTag, n>> : n \in {Note42Html, DotHtml, ABHtml, NoExt}}

\* the two content containers of a document
ContentsOver(cs) ==
  {<<NoTag, NoTag>>}
    \cup {<<Tag(c), NoTag>> : c \in cs}
    \cup {<<NoTag, Tag(c)>> : c \in cs}
    \cup {<<Tag(c), Tag(<<P(NoteText)>>)>> :
            c \in cs \cap SeqsUpTo(NodePool, 1)}

Soup(t, c) == [title |-> t, note_content |-> c[1], content |-> c[2]]

EmptySoup == Soup(NoTag, <<NoTag, NoTag>>)

Unreadable ==
  {[open |-> o, soup |-> EmptySoup] :
     o \in {"notfound", "error", "undecodable"}}

\* source paths and output directories with and without characters outside
\* ASCII, printable and not
EncodingPaths ==
  {join(InputDir, Note42Html), join(InputDir, EHtml), join(AccentDir, AHtml),
   join(NbspDir, AHtml)}

EncodingDirs ==
  {join(InputDir, ConvertedFiles), join(AccentDir, ConvertedFiles)}

\* The calls of the specification: every title and file name with either
\* output directory on documents of at most one node, with and without a
\* failing write; every container and fault under one title; short notes
\* with room for part of their text; the ways the file cannot be read; and
\* under either encoding of the standard output, paths and titles in and
\* outside ASCII with every outcome of reading and of writing.
ConvertCalls ==
  {[html_filepath |-> join(InputDir, tn[2]), output_dir_path |-> out,
    file |-> [open |-> "ok", soup |-> Soup(tn[1], c)], fault |-> f] :
      tn \in TitledNames, c \in ContentsOver(SeqsUpTo(NodePool, 1)),
      out \in {join(InputDir, ConvertedFiles), OtherDir},
      f \in {NoFault} \cup WriteFaults}
    \cup
  {[html_filepath |-> join(InputDir, Note42Html),
    output_dir_path |-> join(InputDir, ConvertedFiles),
    file |-> [open |-> "ok", soup |-> Soup(Tag(ShoppingList), c)],
    fault |-> f] : c \in ContentsOver(Containers), f \in Faults}
    \cup
  {[html_filepath |-> join(InputDir, Note42Html),
    output_dir_path |-> join(InputDir, ConvertedFiles),
    file |-> [open |-> "ok", soup |-> Soup(Tag(t), <<NoTag, NoTag>>)],
    fault |-> f] : t \in {TitleA, TitleE}, f \in RoomFaults}
    \cup
  {[html_filepath |-> path, output_dir_path |-> out,
    file |-> [open |-> "ok", soup |-> Soup(t, <<c, NoTag>>)],
    fault |-> [f EXCEPT !.stdout = enc]] :
      path \in EncodingPaths, out \in EncodingDirs,
      t \in {NoTag, Tag(TitleA), Tag(TitleE)},
      c \in {NoTag, Tag(<<Li(<<Cb(TRUE), Span(Milk)>>)>>)},
      f \in {NoFault} \cup WriteFaults, enc \in {"utf-8", "ascii"}}
    \cup
  {[html_filepath |-> path,
    output_dir_path |-> join(InputDir, ConvertedFiles),
    file |-> u, fault |-> [NoFault EXCEPT !.stdout = enc]] :
      path \in EncodingPaths, u \in Unreadable, enc \in {"utf-8", "ascii"}}

NoCall ==
  [html_filepath |-> <<>>, output_dir_path |-> <<>>,
   file |-> [open |-> "none", soup |-> EmptySoup], fault |-> NoFault]

\* what the output directory may hold before a run
AMd == <<"A", ".", "m", "d">>
InitialFilesIn(dir) == { <<>>, [q \in {join(dir, AMd)} |-> OldText] }

InitialFiles == InitialFilesIn(join(InputDir, ConvertedFiles))

(***************************************************************************)
(* Values of the variables a specification does not use.                   *)
(***************************************************************************)
SanIdle ==
  /\ filename = <<>> /\ sanitized = <<>> /\ resanitized = <<>>
  /\ spc = "unused"

ConvIdle ==
  /\ call = NoCall /\ result = NoOutput("none") /\ cpc = "unused"

BatchIdle ==
  /\ pc = "unused" /\ input_dir = <<>> /\ output_dir = <<>>
  /\ entries = <<>> /\ idx = 0 /\ file_count = 0 /\ conversion_errors = 0
  /\ successful_conversions = 0 /\ existing = {} /\ log = <<>>
  /\ stdout_encoding = "unused"

(***************************************************************************)
(* Specification SpecSanitize: sanitize_filename applied once to an input, *)
(* then once more to its own output.                                       *)
(***************************************************************************)
InitSanitize ==
  /\ filename \in SanInputs
  /\ sanitized = <<>>
  /\ resanitized = <<>>
  /\ spc = "input"
  /\ fs = <<>>
  /\ ConvIdle /\ BatchIdle

Sanitize ==
  /\ spc = "input"
  /\ sanitized' = sanitize_filename(filename)
  /\ spc' = "once"
  /\ UNCHANGED <<filename, resanitized, convVars, fs, batchVars>>

Resanitize ==
  /\ spc = "once"
  /\ resanitized' = sanitize_filename(sanitized)
  /\ spc' = "twice"
  /\ UNCHANGED <<filename, sanitized, convVars, fs, batchVars>>

NextSanitize == Sanitize \/ Resanitize

SpecSanitize == InitSanitize /\ [][NextSanitize]_vars

(***************************************************************************)
(* Specification SpecConvert: one call of convert_keep_html_to_md.         *)
(***************************************************************************)
InitConvert ==
  /\ call = NoCall
  /\ result = NoOutput("none")
  /\ cpc = "idle"
  /\ fs \in InitialFiles
  /\ SanIdle /\ BatchIdle

CallConvert ==
  /\ cpc = "idle"
  /\ \E c \in ConvertCalls :
       LET r == convert_keep_html_to_md(c.html_filepath, c.output_dir_path,
                                        c.file, c.fault)
       IN  /\ call' = c
           /\ result' = r
           /\ fs' = files_after(fs, r)
  /\ cpc' = "returned"
  /\ UNCHANGED <<sanVars, batchVars>>

NextConvert == CallConvert

SpecConvert == InitConvert /\ [][NextConvert]_vars

(***************************************************************************)
(* main: the batch run.                                                    *)
(***************************************************************************)
\* the filter without lower()
is_html_case_sensitive(name) == endswith(name, DotHtml)

\* filename.lower().endswith(".html")
is_html(name) == endswith(lower(name), DotHtml)

\* what reading and writing the files of a batch may give: notes with and
\* without title and content, a source that is gone, and a write that
\* fails after three bytes
BatchReads ==
  {[file |-> [open |-> "ok", soup |-> Soup(t, <<NoTag, NoTag>>)],
    fault |-> NoFault] : t \in {NoTag, Tag(TitleA), Tag(TitleAColon)}}
    \cup {[file |-> [open |-> "ok",
                     soup |-> Soup(Tag(TitleA),
                                   <<Tag(<<Li(<<Cb(TRUE), Span(Milk)>>)>>),
                                     NoTag>>)],
           fault |-> NoFault]}
    \cup {[file |-> [open |-> "notfound", soup |-> EmptySoup],
           fault |-> NoFault]}
    \cup {[file |-> [open |-> "ok",
                     soup |-> Soup(Tag(TitleA), <<NoTag, NoTag>>)],
           fault |-> [NoFault EXCEPT !.write = "nospace", !.room = 3]]}

\* os.listdir(input_dir): the entries in any order, without repetition; the
\* output directory, created before, is one of them
EntryPool == {AHtml, ECapHTML, DotHtml, AHtm, ConvertedFiles}

Listings ==
  {l \in SeqsUpTo(EntryPool, MaxFiles + 1) :
     /\ \A i \in 1..Len(l) : \A j \in 1..Len(l) : l[i] = l[j] => i = j
     /\ \E i \in 1..Len(l) : l[i] = ConvertedFiles}

Init ==
  /\ pc = "start"
  /\ input_dir = <<>> /\ output_dir = <<>>
  /\ entries = <<>> /\ idx = 0
  /\ file_count = 0 /\ conversion_errors = 0 /\ successful_conversions = 0
  /\ existing = {} /\ log = <<>>
  /\ stdout_encoding \in {"utf-8", "ascii"}
  /\ fs = <<>>
  /\ SanIdle /\ ConvIdle

\* filedialog.askdirectory: a directory, or nothing when cancelled; line
\* 135 prints the directory, and the exception of a print that cannot
\* encode it ends the run
AskDirectory ==
  /\ pc = "start"
  /\ \E d \in {<<>>, InputDir, AccentDir} :
       /\ input_dir' = d
       /\ pc' = IF d = <<>> THEN "exit"
                ELSE IF encodes(stdout_encoding, d) THEN "makedirs"
                ELSE "raised"
  /\ UNCHANGED <<output_dir, entries, idx, file_count, conversion_errors,
                 successful_conversions, existing, log, stdout_encoding, fs,
                 sanVars, convVars>>

\* os.makedirs(output_dir, exist_ok=True): the directory may exist already,
\* with files of an earlier run; an OSError ends the run (lines 141 and 143
\* print output_dir, which is input_dir, printed before, and an ASCII name)
MakeDirs ==
  /\ pc = "makedirs"
  /\ output_dir' = join(input_dir, ConvertedFiles)
  /\ \E ok \in BOOLEAN :
       IF ok
         THEN /\ \E f \in InitialFilesIn(output_dir') :
                   fs' = f /\ existing' = DOMAIN f
              /\ pc' = "listdir"
         ELSE /\ pc' = "exit"
              /\ UNCHANGED <<fs, existing>>
  /\ UNCHANGED <<input_dir, entries, idx, file_count, conversion_errors,
                 successful_conversions, log, stdout_encoding, sanVars,
                 convVars>>

\* file_count = 0, conversion_errors = 0, and the evaluation of
\* os.listdir(input_dir) at the head of the for loop, outside any try: when
\* it raises (the directory cannot be listed, or is gone) the exception
\* ends the run
ListDir ==
  /\ pc = "listdir"
  /\ file_count' = 0
  /\ conversion_errors' = 0
  /\ \E listed \in BOOLEAN :
       IF listed
         THEN /\ \E l \in Listings : entries' = l
              /\ idx' = 1
              /\ pc' = "loop"
         ELSE /\ pc' = "raised"
              /\ UNCHANGED <<entries, idx>>
  /\ UNCHANGED <<input_dir, output_dir, successful_conversions, existing, log,
                 stdout_encoding, fs, sanVars, convVars>>

\* one iteration of the loop on an entry that passes the filter
ConvertEntry ==
  /\ pc = "loop"
  /\ idx <= Len(entries)
  /\ is_html(entries[idx])
  /\ \E rd \in BatchReads :
       LET html_filepath == join(input_dir, entries[idx])
           r == convert_keep_html_to_md(
                  html_filepath, output_dir, rd.file,
                  [rd.fault EXCEPT !.stdout = stdout_encoding])
       IN  /\ file_count' = file_count + 1
           /\ conversion_errors' =
                IF r.raised THEN conversion_errors + 1 ELSE conversion_errors
           /\ fs' = files_after(fs, r)
           /\ log' = Append(log, [entry |-> idx, name |-> entries[idx],
                                  outcome |-> r.outcome,
                                  raised |-> r.raised,
                                  opened |-> r.opened,
                                  title |-> r.title,
                                  path |-> r.full_md_path,
                                  text |-> r.final_md_content])
  /\ idx' = idx + 1
  /\ UNCHANGED <<pc, input_dir, output_dir, entries, successful_conversions,
                 existing, stdout_encoding, sanVars, convVars>>

\* one iteration of the loop on any other entry
SkipEntry ==
  /\ pc = "loop"
  /\ idx <= Len(entries)
  /\ ~is_html(entries[idx])
  /\ idx' = idx + 1
  /\ UNCHANGED <<pc, input_dir, output_dir, entries, file_count,
                 conversion_errors, successful_conversions, existing, log,
                 stdout_encoding, fs, sanVars, convVars>>

\* the conversion summary after the loop
Summary ==
  /\ pc = "loop"
  /\ idx > Len(entries)
  /\ successful_conversions' =
       IF file_count = 0 THEN successful_conversions
                         ELSE file_count - conversion_errors
  /\ pc' = "done"
  /\ UNCHANGED <<input_dir, output_dir, entries, idx, file_count,
                 conversion_errors, existing, log, stdout_encoding, fs,
                 sanVars, convVars>>

Next ==
  \/ AskDirectory
  \/ MakeDirs
  \/ ListDir
  \/ ConvertEntry
  \/ SkipEntry
  \/ Summary

Spec == Init /\ [][Next]_vars

(***************************************************************************)
(* Properties of sanitize_filename.                                        *)
(***************************************************************************)
\* C1: whatever the input, the result of sanitize_filename contains none of
\* the characters \ / * ? : " < > |, neither starts nor ends with a
\* whitespace character or a '.', is not empty and has at most 200
\* characters.
C1_SanitizedIsValid ==
  spc # "input" =>
    /\ \A k \in 1..Len(sanitized) : sanitized[k] \notin InvalidChars
    /\ sanitized # <<>>
    /\ Len(sanitized) <= max_len
    /\ sanitized # <<>> =>
         /\ sanitized[1] \notin Whitespace \cup {"."}
         /\ sanitized[Len(sanitized)] \notin Whitespace \cup {"."}

\* C2: sanitize_filename is idempotent on its own output:
\* sanitize_filename(sanitize_filename(x)) = sanitize_filename(x).
C2_SanitizeIdempotent ==
  spc = "twice" => resanitized = sanitized

MyNote_Plan_B ==
  <<"M","y"," ","N","o","t","e","_"," ","P","l","a","n","_","B">>

\* C3: sanitize_filename replaces every ':' and every '+' of its input by
\* '_': an input that needs no other treatment (no other invalid character,
\* nothing to trim, not too long) comes back with exactly these
\* replacements made, and "My Note: Plan+B" becomes "My Note_ Plan_B".
C3_ColonAndPlusBecomeUnderscore ==
  spc # "input" =>
    /\ filename = MyNotePlanB => sanitized = MyNote_Plan_B
    /\ ( /\ filename # <<>>
         /\ Len(filename) <= max_len
         /\ \A k \in 1..Len(filename) :
              filename[k] \notin (InvalidChars \ {":"})
         /\ filename[1] \notin Whitespace \cup {"."}
         /\ filename[Len(filename)] \notin Whitespace \cup {"."} )
       => sanitized = replace(replace(filename, ":", "_"), "+", "_")

(***************************************************************************)
(* Properties of main.                                                     *)
(***************************************************************************)
\* the calls of the loop that wrote their file, and those that did not
Written == {k \in 1..Len(log) : log[k].outcome = "written"}
NotWritten == {k \in 1..Len(log) : log[k].outcome # "written"}

\* C4: at the end of a run the error counter equals the number of files
\* whose conversion failed (file not found, or any other error), and the
\* reported successful count equals the number of files for which an output
\* file was written.
C4_ErrorsAreCounted ==
  (pc = "done" /\ file_count > 0) =>
    /\ conversion_errors = Cardinality(NotWritten)
    /\ successful_conversions = Cardinality(Written)

\* a name ending in ".html", whatever the case of its letters
HtmlSuffix(name) ==
  /\ Len(name) >= 5
  /\ name[Len(name) - 4] = "."
  /\ name[Len(name) - 3] \in {"h", "H"}
  /\ name[Len(name) - 2] \in {"t", "T"}
  /\ name[Len(name) - 1] \in {"m", "M"}
  /\ name[Len(name)] \in {"l", "L"}

\* C5: the loop calls the conversion exactly once for every entry whose name
\* ends in ".html" (case-insensitively) and never for another entry,
\* whether or not earlier conversions failed; the attempted counter is the
\* number of such entries handled so far, and at the end of the run the
\* number N of such entries of the directory.
C5_ExactlyTheHtmlEntries ==
  pc \in {"loop", "done"} =>
    LET handled == 1..(idx - 1)
        html    == {k \in handled : HtmlSuffix(entries[k])}
    IN  /\ file_count = Cardinality(html)
        /\ Len(log) = Cardinality(html)
        /\ \A k \in handled :
             Cardinality({j \in 1..Len(log) : log[j].entry = k})
               = IF k \in html THEN 1 ELSE 0
        /\ \A j \in 1..Len(log) : log[j].name = entries[log[j].entry]
        /\ pc = "done" => idx = Len(entries) + 1

\* C5 witness: a finished run over upper-case and lower-case .html entries
\* and other entries, whose first conversion failed.
C5_Witness ==
  /\ pc = "done"
  /\ Len(log) = 2
  /\ log[1].outcome # "written"
  /\ \E j \in 1..Len(log) : log[j].name = ECapHTML
  /\ Len(entries) > 2

\* the calls of the loop after call k that opened the path of call k
LaterOpened(k) ==
  {j \in 1..Len(log) : j > k /\ log[j].opened /\ log[j].path = log[k].path}

\* C6: when two files of a batch have titles that sanitize to the same
\* string, both are written to the same path and the later write replaces
\* the earlier one: after the batch a path holds the text of the last
\* conversion that wrote it, and the successful conversions have produced
\* fewer files than there were of them (fewer than the directory holds,
\* when it was empty before and no write failed).
C6_LaterWriteOverwrites ==
  pc = "done" =>
    /\ \A j \in Written : \A k \in Written :
         sanitize_filename(log[j].title) = sanitize_filename(log[k].title)
           => log[j].path = log[k].path
    /\ \A k \in Written :
         LaterOpened(k) = {}
           => /\ log[k].path \in DOMAIN fs
              /\ fs[log[k].path] = log[k].text
    /\ (\E j \in Written : \E k \in Written :
          /\ j # k
          /\ sanitize_filename(log[j].title) = sanitize_filename(log[k].title))
         => /\ Cardinality({log[k].path : k \in Written})
                 < Cardinality(Written)
            /\ (existing = {} /\ NotWritten = {})
                 => Cardinality(DOMAIN fs) < Cardinality(Written)

\* C6 witness: two conversions with different titles and texts that were
\* written to one path, which held an older file and now holds the text of
\* the second.
C6_Witness ==
  /\ pc = "done"
  /\ Len(log) = 2
  /\ Written = {1, 2}
  /\ log[1].title # log[2].title
  /\ log[1].path = log[2].path
  /\ log[1].text # log[2].text
  /\ log[1].path \in existing
  /\ fs[log[2].path] = log[2].text

(***************************************************************************)
(* Properties of convert_keep_html_to_md.                                  *)
(***************************************************************************)
\* the call is over and the input document was read: the progress line of
\* line 39 was printed and the source was opened and parsed
Read ==
  /\ cpc = "returned"
  /\ call.file.open = "ok"
  /\ encodes(call.fault.stdout, basename(call.html_filepath))

\* the write of the call fails: the output file cannot be opened, or there
\* is no room for all of its text
WriteFails ==
  \/ call.fault.write \in {"notfound", "error"}
  \/ /\ call.fault.write = "nospace"
     /\ utf8_size(result.final_md_content) > call.fault.room

\* the content container of the document of the call, before the call
OriginalContent ==
  IF call.file.soup.note_content.present
    THEN call.file.soup.note_content.value
    ELSE call.file.soup.content.value

HasContent ==
  call.file.soup.note_content.present \/ call.file.soup.content.present

\* C7 as claimed: when a readable document has neither the primary nor the
\* fallback content container, the output file is still written, its text
\* is exactly "# " + title + "\n\n" with an empty body, and no exception
\* leaves the conversion.
C7_TitleOnlyNote ==
  (Read /\ ~HasContent) =>
    /\ result.outcome = "written"
    /\ ~result.raised
    /\ result.body = <<>>
    /\ result.full_md_path \in DOMAIN fs
    /\ fs[result.full_md_path] = <<"#", " ">> \o result.title \o <<"\n", "\n">>

\* C7 as amended: for such a document the text to write is exactly
\* "# " + title + "\n\n" with an empty body, and the output file is written
\* with it unless the write itself fails; a failed write is caught and
\* leaves no file with that text; an exception leaves the conversion only
\* when the write has failed and the message of the except clause cannot be
\* printed on the standard output.
C7_TitleOnlyNoteUnlessWriteFails ==
  (Read /\ ~HasContent) =>
    /\ result.body = <<>>
    /\ result.final_md_content
         = <<"#", " ">> \o result.title \o <<"\n", "\n">>
    /\ ~WriteFails =>
         /\ ~result.raised
         /\ result.full_md_path \in DOMAIN fs
         /\ fs[result.full_md_path] = result.final_md_content
         /\ encodes(call.fault.stdout, result.md_filename)
              => result.outcome = "written"
    /\ WriteFails =>
         /\ result.outcome # "written"
         /\ result.opened => fs[result.full_md_path] # result.final_md_content
         /\ ~result.opened => \A q \in DOMAIN fs : fs[q] = OldText
    /\ result.raised =>
         /\ WriteFails
         /\ call.fault.stdout # "utf-8"

\* C7 witness: a titled document without content container was converted.
C7_Witness ==
  /\ Read /\ ~HasContent
  /\ call.file.soup.title = Tag(ShoppingList)
  /\ result.title = ShoppingList
  /\ result.outcome = "written"
  /\ result.full_md_path \in DOMAIN fs

\* r is t without its leading and trailing whitespace
IsTrimOf(r, t) ==
  \E i \in 1..(Len(t) + 1) : \E j \in 0..Len(t) :
    /\ r = SubSeq(t, i, j)
    /\ \A k \in 1..(i - 1) : t[k] \in Whitespace
    /\ \A k \in (j + 1)..Len(t) : t[k] \in Whitespace
    /\ r # <<>> => (r[1] \notin Whitespace /\ r[Len(r)] \notin Whitespace)

\* the source file names of the model without their extension
StemOf(name) ==
  CASE name = Note42Html -> Note42
    [] name = ABHtml     -> <<"a", ".", "b">>
    [] name = NoExt      -> NoExt
    [] name = DotHtml    -> DotHtml
    [] name = AHtml      -> <<"a">>
    [] name = EHtml      -> TitleE

\* the last path component removed
DirOf(path) == SubSeq(path, 1, Len(path) - Len(basename(path)) - 1)

\* C8: for every document that was read the title is not empty: it is the
\* trimmed text of the title element when there is one, otherwise the
\* source file name without its extension (note42 for note42.html), and
\* "Untitled Note" when that is empty; the target file name is
\* sanitize_filename(title) + ".md", not empty, and the output path is that
\* name in the output directory passed in, not in the directory of the
\* source file.
C8_TitleAndTarget ==
  Read =>
    LET t    == call.file.soup.title
        base == basename(call.html_filepath)
    IN  /\ result.title # <<>>
        /\ t.present =>
             \/ IsTrimOf(result.title, t.value) /\ result.title # <<>>
             \/ IsTrimOf(<<>>, t.value) /\ result.title = UntitledNote
        /\ ~t.present => result.title = StemOf(base)
        /\ (~t.present /\ base = Note42Html) => result.title = Note42
        /\ result.md_filename # <<>>
        /\ result.md_filename = sanitize_filename(result.title) \o DotMd
        /\ result.full_md_path
             = call.output_dir_path \o <<"/">> \o result.md_filename
        /\ DirOf(result.full_md_path) = call.output_dir_path
        /\ call.output_dir_path # DirOf(call.html_filepath)
             => DirOf(result.full_md_path) # DirOf(call.html_filepath)

\* C8 witness: note42.html without title element was converted into an
\* output directory that is not the directory of the source.
C8_Witness ==
  /\ Read
  /\ result.outcome = "written"
  /\ ~call.file.soup.title.present
  /\ basename(call.html_filepath) = Note42Html
  /\ result.title = Note42
  /\ call.output_dir_path = OtherDir
  /\ result.full_md_path \in DOMAIN fs

\* the normalization loop of the call raised
NormRaised ==
  /\ call.fault.norm_at \in 1..Len(OriginalContent)
  /\ OriginalContent[call.fault.norm_at].tag = "li"

\* C9: when the normalization or the rendering of the normalized container
\* raises, the rendering is retried on the original, unmodified container
\* (no list item replaced); the body is "[Content Conversion Failed]" only
\* when that retry raises too; the conversion does not fail in any of these
\* cases, and the file is written (stated here for the calls whose write
\* does not itself fail).
C9_RetryOnOriginal ==
  (Read /\ HasContent) =>
    /\ ~WriteFails =>
         /\ ~result.raised
         /\ result.full_md_path \in DOMAIN fs
         /\ fs[result.full_md_path] = result.final_md_content
    /\ result.retried <=> (NormRaised \/ call.fault.md_raises)
    /\ result.retried => result.rendered = OriginalContent
    /\ (result.retried /\ ~call.fault.retry_raises)
         => result.body = md(OriginalContent)
    /\ result.body = ContentConversionFailed
         => (result.retried /\ call.fault.retry_raises)

\* the first checkbox among the children of a list item, or 0
CheckboxOf(kids) ==
  IF \E k \in 1..Len(kids) : kids[k] \in {Cb(TRUE), Cb(FALSE)}
    THEN CHOOSE k \in 1..Len(kids) :
           /\ kids[k] \in {Cb(TRUE), Cb(FALSE)}
           /\ \A j \in 1..(k - 1) : kids[j] \notin {Cb(TRUE), Cb(FALSE)}
    ELSE 0

Mark(checked) ==
  IF checked THEN <<"-"," ","[","x","]"," ">> ELSE <<"-"," ","["," ","]"," ">>

\* label is the trimmed text of the element right after position c, or
\* empty when nothing follows
LabelOfNextSibling(kids, c, label) ==
  IF c < Len(kids) THEN IsTrimOf(label, kids[c + 1].text) ELSE label = <<>>

\* label is the trimmed text of the first span after position c, or empty
\* when no span follows
LabelOfFirstSpan(kids, c, label) ==
  \/ \E k \in (c + 1)..Len(kids) :
       /\ kids[k].tag = "span"
       /\ \A j \in (c + 1)..(k - 1) : kids[j].tag # "span"
       /\ IsTrimOf(label, kids[k].text)
  \/ /\ \A k \in (c + 1)..Len(kids) : kids[k].tag # "span"
     /\ label = <<>>

\* the label under either reading of the claim
LabelOk(reading, kids, c, label) ==
  IF reading = "next sibling" THEN LabelOfNextSibling(kids, c, label)
                              ELSE LabelOfFirstSpan(kids, c, label)

\* node new is what the normalization has to make of node old, the label
\* being chosen as the reading says
NormalizedAs(old, new, reading) ==
  IF old.tag = "li" /\ CheckboxOf(old.kids) # 0
    THEN LET c == CheckboxOf(old.kids) IN
         /\ new.tag = "p"
         /\ new.kids = <<>>
         /\ Len(new.text) >= 6
         /\ SubSeq(new.text, 1, 6) = Mark(old.kids[c].checked)
         /\ LabelOk(reading, old.kids, c, SubSeq(new.text, 7, Len(new.text)))
    ELSE new = old

MilkAndEggs ==
  <<Li(<<Cb(TRUE), Span(Milk)>>), Li(<<Cb(FALSE), Span(EggsPadded)>>)>>

CheckedMilk  == <<"-"," ","[","x","]"," ">> \o Milk
UncheckedEggs == <<"-"," ","["," ","]"," ">> \o Eggs

\* line is a line of body
IsLineOf(line, body) ==
  \E i \in 1..Len(body) :
    /\ i + Len(line) <= Len(body)
    /\ SubSeq(body, i, i + Len(line) - 1) = line
    /\ body[i + Len(line)] = "\n"
    /\ i > 1 => body[i - 1] = "\n"

\* what C10 says apart from the choice of the label
NormalizedWith(reading) ==
  (Read /\ HasContent /\ ~NormRaised) =>
    /\ Len(result.rendered) = Len(OriginalContent)
    /\ \A k \in 1..Len(OriginalContent) :
         NormalizedAs(OriginalContent[k], result.rendered[k], reading)
    /\ (OriginalContent = MilkAndEggs /\ ~result.retried) =>
         /\ IsLineOf(CheckedMilk, result.body)
         /\ IsLineOf(UncheckedEggs, result.body)

\* C10 as claimed: the normalization replaces every list item that holds a
\* checkbox by a paragraph "- [x] <label>" (checked) or "- [ ] <label>",
\* where <label> is the trimmed text of the element immediately following
\* the checkbox in the list item, or empty when nothing follows it; other
\* nodes are unchanged; a checked Milk and an unchecked Eggs give the body
\* lines "- [x] Milk" and "- [ ] Eggs".
C10_LabelOfNextSibling == NormalizedWith("next sibling")

\* C10 as amended: the same, where <label> is the trimmed text of the first
\* span element among the siblings following the checkbox (elements of
\* another kind in between are skipped), or empty when no span follows it.
C10_LabelOfFirstSpan == NormalizedWith("first span")

\* C10 witness: a list item whose checkbox is followed by another element
\* and then by a span was replaced by "- [x] Milk", next to a list item
\* without checkbox that was left alone.
C10_Witness ==
  /\ Read /\ HasContent /\ ~NormRaised
  /\ \E k \in 1..Len(OriginalContent) :
       /\ OriginalContent[k] = Li(<<Cb(TRUE), Bold(Extra), Span(Milk)>>)
       /\ result.rendered[k] = P(CheckedMilk)
  /\ \E k \in 1..Len(OriginalContent) :
       /\ OriginalContent[k] = Li(<<Span(Milk)>>)
       /\ result.rendered[k] = Li(<<Span(Milk)>>)

====
